---- MODULE Spec2Model ----
(***************************************************************************)
(* Model of Solar_App.py, a Streamlit script: every user action re-runs    *)
(* the whole script top to bottom against the widget values and            *)
(* st.session_state.  Floats are IEEE-754 doubles, every operation rounded *)
(* to nearest (ties to even) as Python and numpy round it.                 *)
(***************************************************************************)
EXTENDS Integers, Sequences, FiniteSets, TLC

VARIABLES widgets, session_state, screen, call

vars == <<widgets, session_state, screen, call>>

\* ------------------------------------------------------------------
\* Bounds of the exploration
\* ------------------------------------------------------------------
MaxLoads == 2
MaxItems == 2

\* ------------------------------------------------------------------
\* Unsigned integers of any size: sequences of limbs, least significant
\* first (the 53-bit significand of a double does not fit one integer)
\* ------------------------------------------------------------------
LimbBits == 14
LimbBase == 16384
MantBits == 53
GuardBits == 4 * LimbBits

Abs(i) == IF i < 0 THEN 0 - i ELSE i

Pow2(k) == <<1, 2, 4, 8, 16, 32, 64, 128, 256, 512, 1024, 2048, 4096, 8192, 16384>>[k + 1]

Limb(N, i) == IF i >= 1 /\ i <= Len(N) THEN N[i] ELSE 0

RECURSIVE BigTrim(_)
BigTrim(N) ==
    IF N = <<>> THEN N
    ELSE IF N[Len(N)] = 0 THEN BigTrim(SubSeq(N, 1, Len(N) - 1)) ELSE N

BigPad(N, n) == [i \in 1..n |-> Limb(N, i)]

RECURSIVE BigFromInt(_)
BigFromInt(n) ==
    IF n = 0 THEN <<>> ELSE <<n % LimbBase>> \o BigFromInt(n \div LimbBase)

RECURSIVE BigToInt(_)
BigToInt(N) ==
    IF N = <<>> THEN 0 ELSE N[1] + LimbBase * BigToInt(Tail(N))

\* number of significant bits of a limb
LimbLen(d) ==
    IF d < 128
    THEN IF d < 8
         THEN (IF d < 2 THEN d ELSE IF d < 4 THEN 2 ELSE 3)
         ELSE IF d < 32 THEN (IF d < 16 THEN 4 ELSE 5)
         ELSE (IF d < 64 THEN 6 ELSE 7)
    ELSE IF d < 1024
         THEN (IF d < 256 THEN 8 ELSE IF d < 512 THEN 9 ELSE 10)
         ELSE IF d < 4096 THEN (IF d < 2048 THEN 11 ELSE 12)
         ELSE (IF d < 8192 THEN 13 ELSE 14)

\* number of significant bits of a trimmed N
BigBitLen(N) ==
    IF N = <<>> THEN 0 ELSE LimbBits * (Len(N) - 1) + LimbLen(N[Len(N)])

BigShl(N, k) ==
    LET q == k \div LimbBits
        r == k % LimbBits
    IN  BigTrim([i \in 1..(Len(N) + q + 1) |->
            ((Limb(N, i - q) * Pow2(r)) % LimbBase)
            + (Limb(N, i - q - 1) \div Pow2(LimbBits - r))])

BigShr(N, k) ==
    LET q == k \div LimbBits
        r == k % LimbBits
    IN  IF q >= Len(N) THEN <<>>
        ELSE BigTrim([i \in 1..(Len(N) - q) |->
                (Limb(N, i + q) \div Pow2(r))
                + ((Limb(N, i + q + 1) % Pow2(r)) * Pow2(LimbBits - r))])

\* bit k of N (bit 0 is the least significant)
BigBit(N, k) == (Limb(N, (k \div LimbBits) + 1) \div Pow2(k % LimbBits)) % 2

\* some bit below bit k is set
BigLowNonzero(N, k) ==
    \/ \E i \in 1..(k \div LimbBits) : Limb(N, i) # 0
    \/ Limb(N, (k \div LimbBits) + 1) % Pow2(k % LimbBits) # 0

RECURSIVE BigCmpFrom(_, _, _)
BigCmpFrom(A, B, i) ==
    IF i = 0 THEN 0
    ELSE IF Limb(A, i) < Limb(B, i) THEN 0 - 1
    ELSE IF Limb(A, i) > Limb(B, i) THEN 1
    ELSE BigCmpFrom(A, B, i - 1)

\* -1, 0, 1 as A <, =, > B
BigCmp(A, B) == BigCmpFrom(A, B, IF Len(A) > Len(B) THEN Len(A) ELSE Len(B))

RECURSIVE BigAddFrom(_, _, _, _)
BigAddFrom(A, B, i, c) ==
    IF i > Len(A) /\ i > Len(B)
    THEN (IF c = 0 THEN <<>> ELSE <<c>>)
    ELSE LET t == Limb(A, i) + Limb(B, i) + c
         IN  <<t % LimbBase>> \o BigAddFrom(A, B, i + 1, t \div LimbBase)

BigAdd(A, B) == BigTrim(BigAddFrom(A, B, 1, 0))

RECURSIVE BigSubFrom(_, _, _, _)
BigSubFrom(A, B, i, c) ==
    IF i > Len(A) THEN <<>>
    ELSE LET t == Limb(A, i) - Limb(B, i) - c
         IN  IF t < 0 THEN <<t + LimbBase>> \o BigSubFrom(A, B, i + 1, 1)
             ELSE <<t>> \o BigSubFrom(A, B, i + 1, 0)

\* A - B for A >= B
BigSub(A, B) == BigTrim(BigSubFrom(A, B, 1, 0))

RECURSIVE BigMulLimbFrom(_, _, _, _)
BigMulLimbFrom(A, d, i, c) ==
    IF i > Len(A) THEN (IF c = 0 THEN <<>> ELSE <<c>>)
    ELSE LET t == A[i] * d + c
         IN  <<t % LimbBase>> \o BigMulLimbFrom(A, d, i + 1, t \div LimbBase)

\* A * d for one limb d
BigMulLimb(A, d) == IF d = 0 THEN <<>> ELSE BigMulLimbFrom(A, d, 1, 0)

\* largest q with q * V <= R, starting from an estimate q that is not too
\* small and its product P = q * V: the digit and the remainder R - q * V
RECURSIVE BigFitDigit(_, _, _, _)
BigFitDigit(R, V, q, P) ==
    IF BigCmp(P, R) > 0 THEN BigFitDigit(R, V, q - 1, BigSub(P, V))
    ELSE [q |-> q, r |-> BigSub(R, P)]

Min(a, b) == IF a < b THEN a ELSE b

\* the quotient digit estimated from the two top limbs of R1; never too small
BigEstimate(R1, V, n) ==
    Min((Limb(R1, n + 1) * LimbBase + Limb(R1, n)) \div V[n], LimbBase - 1)

\* the quotient digit of R1 by V and the remainder
BigDivDigit(R1, V, q0) ==
    IF q0 = 0 THEN [q |-> 0, r |-> R1]
    ELSE BigFitDigit(R1, V, q0, BigMulLimb(V, q0))

\* long division of A by a divisor V whose top limb is at least LimbBase / 2;
\* i runs from the top limb of A down, R is the running remainder, R1 the
\* remainder with the next limb of A brought down, fit its quotient digit
\* and the remainder left, each computed once
RECURSIVE BigDivFrom(_, _, _, _, _)
BigDivFrom(A, V, i, R, Q) ==
    IF i = 0 THEN [q |-> BigTrim(Q), r |-> R]
    ELSE CHOOSE res \in
           {BigDivFrom(A, V, i - 1, fit.r, <<fit.q>> \o Q) :
              fit \in {BigDivDigit(R1, V, BigEstimate(R1, V, Len(V))) :
                         R1 \in {BigTrim(<<A[i]>> \o R)}}} : TRUE

\* quotient and remainder of A by V > 0: both are shifted left by s bits to
\* bring the top limb of V to LimbBase / 2 or more, the remainder is shifted back
BigDivMod(A, V) ==
    CHOOSE d \in UNION
      {{[q |-> res.q, r |-> BigShr(res.r, s)] :
          res \in {BigDivFrom(BigShl(A, s), BigShl(V, s), Len(BigShl(A, s)), <<>>, <<>>)}} :
       s \in {LimbBits - LimbLen(V[Len(V)])}} : TRUE

RECURSIVE BigMul(_, _)
BigMul(A, B) ==
    IF B = <<>> THEN <<>>
    ELSE BigAdd(BigMulLimb(A, B[1]), <<0>> \o BigMul(A, Tail(B)))

RECURSIVE BigPow10(_)
BigPow10(digits) ==
    IF digits = 0 THEN <<1>> ELSE BigMulLimb(BigPow10(digits - 1), 10)

\* ------------------------------------------------------------------
\* Python numbers.  A finite float is an IEEE-754 double: sign s, significand
\* m (limbs) and exponent e, value (-1)^s * m * 2^e, with 2^52 <= m < 2^53
\* and MinExp <= e <= MaxExp for a normal number, m < 2^52 and e = MinExp for
\* a subnormal one, m = 0 and e = 0 for a zero.  A result beyond the largest
\* double is an infinity.  np marks a numpy.float64 (the type of every
\* DataFrame sum), which yields inf/nan on a zero divisor where a Python float
\* raises ZeroDivisionError.
\* ------------------------------------------------------------------
MinExp == 0 - 1074
MaxExp == 971

None == [k |-> "None"]
InfOf(s, np) == [k |-> "inf", s |-> s, np |-> np]
NaNOf(np) == [k |-> "nan", np |-> np]
ZeroDivisionError == [k |-> "ZeroDivisionError"]
TypeError == [k |-> "TypeError"]
OverflowError == [k |-> "OverflowError"]
ValueError == [k |-> "ValueError"]

IsNum(x) == x.k = "num"
IsRaised(x) == x.k \in {"ZeroDivisionError", "TypeError", "OverflowError", "ValueError"}
IsZero(x) == IsNum(x) /\ BigTrim(x.m) = <<>>
Xor(s, t) == (s + t) % 2

\* M is trimmed and has at most 53 bits
NumPack(s, M, e, np) ==
    IF M = <<>> THEN [k |-> "num", s |-> s, m |-> <<0, 0, 0, 0>>, e |-> 0, np |-> np]
    ELSE IF e > MaxExp THEN InfOf(s, np)
    ELSE [k |-> "num", s |-> s, m |-> BigPad(M, 4), e |-> e, np |-> np]

\* M has at most 53 bits, or 54 after a carry out of the rounding
NumCarry(s, M, e, np) ==
    IF BigBitLen(M) > MantBits THEN NumPack(s, BigShr(M, 1), e + 1, np)
    ELSE NumPack(s, M, e, np)

\* round to nearest, ties to even: Q is N without its r low bits
NumRound(s, N, r, Q, e, sticky, np) ==
    NumCarry(s,
             IF /\ BigBit(N, r - 1) = 1
                /\ (BigLowNonzero(N, r - 1) \/ sticky \/ BigBit(Q, 0) = 1)
             THEN BigAdd(Q, <<1>>) ELSE Q,
             e + r, np)

\* r low bits of N do not fit: those below 53 significant bits and those
\* below the weight 2^MinExp of the last bit of a subnormal number
NumDrop(s, N, L, e, sticky, np, r) ==
    IF r > 0 THEN NumRound(s, N, r, BigShr(N, r), e, sticky, np)
    ELSE NumPack(s, BigShl(N, Min(MantBits - L, e - MinExp)),
                 e - Min(MantBits - L, e - MinExp), np)

\* L is the number of bits of N
NumSized(s, N, L, e, sticky, np) ==
    IF L = 0 THEN NumPack(s, <<>>, 0, np)
    ELSE NumDrop(s, N, L, e, sticky, np,
                 IF L - MantBits > MinExp - e THEN L - MantBits ELSE MinExp - e)

\* the double nearest to (-1)^s * (N + f) * 2^e, 0 <= f < 1, sticky = (f > 0),
\* ties to even, an infinity when that is beyond the largest double; N has
\* more than 53 bits whenever sticky
Num(s, N0, e, sticky, np) ==
    NumSized(s, BigTrim(N0), BigBitLen(BigTrim(N0)), e, sticky, np)

FromInt(i, np) == Num(IF i < 0 THEN 1 ELSE 0, BigFromInt(Abs(i)), 0, FALSE, np)

\* the product of two 4-limb significands, 8 limbs
MantMul(a, b) ==
    LET t1 == a[1] * b[1]
        t2 == a[1] * b[2] + a[2] * b[1] + t1 \div LimbBase
        t3 == a[1] * b[3] + a[2] * b[2] + a[3] * b[1] + t2 \div LimbBase
        t4 == a[1] * b[4] + a[2] * b[3] + a[3] * b[2] + a[4] * b[1] + t3 \div LimbBase
        t5 == a[2] * b[4] + a[3] * b[3] + a[4] * b[2] + t4 \div LimbBase
        t6 == a[3] * b[4] + a[4] * b[3] + t5 \div LimbBase
        t7 == a[4] * b[4] + t6 \div LimbBase
    IN  <<t1 % LimbBase, t2 % LimbBase, t3 % LimbBase, t4 % LimbBase,
          t5 % LimbBase, t6 % LimbBase, t7 % LimbBase, t7 \div LimbBase>>

FloatMul(x, y) ==
    Num(Xor(x.s, y.s), MantMul(x.m, y.m), x.e + y.e, FALSE, x.np \/ y.np)

\* e is the exponent of the quotient of the two aligned significands
FloatDivPack(x, y, e, d) ==
    Num(Xor(x.s, y.s), d.q, e - 4 * LimbBits, d.r # <<>>, x.np \/ y.np)

\* X and V are the significands shifted to 56 bits; the first quotient bit is
\* ge = (X >= V), four more limbs follow
FloatDivAligned(x, y, e, X, V, ge) ==
    FloatDivPack(x, y, e, BigDivFrom(<<0, 0, 0, 0>>, V, 4,
                                     IF ge THEN BigSub(X, V) ELSE X,
                                     IF ge THEN <<1>> ELSE <<>>))

\* Lx and Ly are the numbers of bits of the significands (53 unless subnormal)
FloatDivSized(x, y, Lx, Ly) ==
    FloatDivAligned(x, y, x.e - y.e + Lx - Ly,
                    BigShl(x.m, 4 * LimbBits - Lx), BigShl(y.m, 4 * LimbBits - Ly),
                    BigCmp(BigShl(x.m, 4 * LimbBits - Lx),
                           BigShl(y.m, 4 * LimbBits - Ly)) >= 0)

\* y # 0
FloatDiv(x, y) ==
    IF IsZero(x) THEN NumPack(Xor(x.s, y.s), <<>>, 0, x.np \/ y.np)
    ELSE FloatDivSized(x, y, BigBitLen(BigTrim(x.m)), BigBitLen(BigTrim(y.m)))

\* X and Y are the significands at the common exponent e, c compares them;
\* an exact difference of zero is +0.0
FloatAddAligned(x, y, X, Y, e, c) ==
    Num(IF x.s = y.s \/ c > 0 THEN x.s ELSE IF c = 0 THEN 0 ELSE y.s,
        IF x.s = y.s THEN BigAdd(X, Y)
        ELSE IF c > 0 THEN BigSub(X, Y)
        ELSE IF c = 0 THEN <<>> ELSE BigSub(Y, X),
        e, FALSE, x.np \/ y.np)

FloatAddCmp(x, y, X, Y, e) == FloatAddAligned(x, y, X, Y, e, BigCmp(X, Y))

FloatAddExp(x, y, e) ==
    FloatAddCmp(x, y, BigShl(x.m, x.e - e), BigShl(y.m, y.e - e), e)

\* a sum of two zeros is -0.0 only when both are; an operand more than
\* GuardBits exponents below the other is under a quarter of its last bit
\* and is rounded away
FloatAdd(x, y) ==
    IF IsZero(x) /\ IsZero(y)
    THEN NumPack(IF x.s = 1 /\ y.s = 1 THEN 1 ELSE 0, <<>>, 0, x.np \/ y.np)
    ELSE IF IsZero(x) \/ (~IsZero(y) /\ y.e - x.e > GuardBits)
    THEN [y EXCEPT !.np = x.np \/ y.np]
    ELSE IF IsZero(y) \/ x.e - y.e > GuardBits
    THEN [x EXCEPT !.np = x.np \/ y.np]
    ELSE FloatAddExp(x, y, Min(x.e, y.e))

\* -1, 0, 1 as |x| <, =, > |y| for finite floats
MagCmp(x, y) ==
    IF IsZero(x) THEN (IF IsZero(y) THEN 0 ELSE 0 - 1)
    ELSE IF IsZero(y) THEN 1
    ELSE IF x.e < y.e THEN 0 - 1
    ELSE IF x.e > y.e THEN 1
    ELSE BigCmp(x.m, y.m)

\* -1, 0, 1 as x <, =, > y for floats and infinities
Cmp(x, y) ==
    IF ~IsNum(x) /\ ~IsNum(y) THEN y.s - x.s
    ELSE IF ~IsNum(x) THEN 1 - 2 * x.s
    ELSE IF ~IsNum(y) THEN 2 * y.s - 1
    ELSE IF IsZero(x) /\ IsZero(y) THEN 0
    ELSE IF x.s # y.s THEN y.s - x.s
    ELSE IF x.s = 0 THEN MagCmp(x, y)
    ELSE MagCmp(y, x)

Ordered(x, y) == x.k \in {"num", "inf"} /\ y.k \in {"num", "inf"}

Less(x, y) == Ordered(x, y) /\ Cmp(x, y) < 0
LessEq(x, y) == Ordered(x, y) /\ Cmp(x, y) <= 0
\* x == y
Same(x, y) == IF Ordered(x, y) THEN Cmp(x, y) = 0 ELSE x = None /\ y = None

\* the float n / d for integers n, d (a literal such as 1.25, slider / 100.0)
PyFloat(n, d) ==
    FloatDiv(FromInt(IF d < 0 THEN 0 - n ELSE n, FALSE), FromInt(Abs(d), FALSE))
NpFloat(n, d) == [PyFloat(n, d) EXCEPT !.np = TRUE]
Zero == FromInt(0, FALSE)
Whole(i) == FromInt(i, FALSE)

Mul(x, y) ==
    IF IsRaised(x) THEN x
    ELSE IF IsRaised(y) THEN y
    ELSE IF x = None \/ y = None THEN TypeError
    ELSE IF x.k = "nan" \/ y.k = "nan" THEN NaNOf(x.np \/ y.np)
    ELSE IF x.k = "inf" \/ y.k = "inf"
         THEN (IF IsZero(x) \/ IsZero(y) THEN NaNOf(x.np \/ y.np)
               ELSE InfOf(Xor(x.s, y.s), x.np \/ y.np))
    ELSE FloatMul(x, y)

Add(x, y) ==
    IF IsRaised(x) THEN x
    ELSE IF IsRaised(y) THEN y
    ELSE IF x = None \/ y = None THEN TypeError
    ELSE IF x.k = "nan" \/ y.k = "nan" THEN NaNOf(x.np \/ y.np)
    ELSE IF x.k = "inf" /\ y.k = "inf"
         THEN (IF x.s = y.s THEN InfOf(x.s, x.np \/ y.np) ELSE NaNOf(x.np \/ y.np))
    ELSE IF x.k = "inf" THEN InfOf(x.s, x.np \/ y.np)
    ELSE IF y.k = "inf" THEN InfOf(y.s, x.np \/ y.np)
    ELSE FloatAdd(x, y)

\* x / y: a zero divisor raises unless an operand is a numpy.float64, which
\* gives inf or nan
TrueDiv(x, y) ==
    IF IsRaised(x) THEN x
    ELSE IF IsRaised(y) THEN y
    ELSE IF x = None \/ y = None THEN TypeError
    ELSE IF IsZero(y) /\ ~(x.np \/ y.np) THEN ZeroDivisionError
    ELSE IF x.k = "nan" \/ y.k = "nan" THEN NaNOf(x.np \/ y.np)
    ELSE IF x.k = "inf" /\ y.k = "inf" THEN NaNOf(x.np \/ y.np)
    ELSE IF x.k = "inf" THEN InfOf(Xor(x.s, y.s), x.np \/ y.np)
    ELSE IF y.k = "inf" THEN NumPack(Xor(x.s, y.s), <<>>, 0, x.np \/ y.np)
    ELSE IF IsZero(y)
         THEN (IF IsZero(x) THEN NaNOf(TRUE) ELSE InfOf(Xor(x.s, y.s), TRUE))
    ELSE FloatDiv(x, y)

\* the integer part I of |x| and whether a fraction is left over
TruncOf(M, I, k) == [int |-> I, frac |-> BigShl(I, k) # M]

Trunc(x) ==
    IF x.e >= 0 THEN [int |-> BigShl(BigTrim(x.m), x.e), frac |-> FALSE]
    ELSE TruncOf(BigTrim(x.m), BigShr(BigTrim(x.m), 0 - x.e), 0 - x.e)

CeilOf(s, i, frac) == IF s = 1 THEN 0 - i ELSE IF frac THEN i + 1 ELSE i

\* math.ceil: a Python int
Ceil(x) ==
    IF x = None THEN TypeError
    ELSE IF x.k = "nan" THEN ValueError
    ELSE IF ~IsNum(x) THEN (IF IsRaised(x) THEN x ELSE OverflowError)
    ELSE CeilOf(x.s, BigToInt(Trunc(x).int), Trunc(x).frac)

BigRoundBits(N, k, Q) ==
    IF BigBit(N, k - 1) = 1 /\ (BigLowNonzero(N, k - 1) \/ BigBit(Q, 0) = 1)
    THEN BigAdd(Q, <<1>>) ELSE Q

\* the integer nearest to N / 2^k, k > 0, ties to even
BigRoundShr(N, k) == BigRoundBits(N, k, BigShr(N, k))

\* numpy.rint
Rint(x) ==
    IF ~IsNum(x) THEN x
    ELSE IF x.e >= 0 THEN x
    ELSE Num(x.s, BigRoundShr(x.m, 0 - x.e), 0, FALSE, x.np)

\* d is the quotient of n shifted left by k limbs, with more than 53 bits
PyRoundPack(s, d, k) == Num(s, d.q, 0 - k * LimbBits, d.r # <<>>, FALSE)

\* n is the decimal significand: the double nearest to n / p
PyRoundDecimal(s, n, p) ==
    PyRoundPack(s, BigDivMod([i \in 1..(Len(p) + 4) |-> 0] \o n, p), Len(p) + 4)

\* Python round(x, digits) of a float: the decimal nearest to the exact value
\* of the double (ties to even), then the double nearest to that decimal; a
\* whole number is its own rounding
PyRound(x, digits) ==
    IF x.e >= 0 THEN x
    ELSE PyRoundDecimal(x.s,
                        BigRoundShr(BigMul(BigTrim(x.m), BigPow10(digits)), 0 - x.e),
                        BigPow10(digits))

\* round(x, digits): a numpy.float64 rounds as rint(x * 10^digits) / 10^digits
Round(x, digits) ==
    IF IsRaised(x) THEN x
    ELSE IF x = None THEN TypeError
    ELSE IF ~IsNum(x) THEN x
    ELSE IF x.np
         THEN TrueDiv(Rint(Mul(x, Num(0, BigPow10(digits), 0, FALSE, FALSE))),
                      Num(0, BigPow10(digits), 0, FALSE, FALSE))
    ELSE PyRound(x, digits)

\* ------------------------------------------------------------------
\* Helper functions (calculations)
\* ------------------------------------------------------------------
LoadRow(it, total_w) ==
    [name |-> it.name, watt |-> it.watt, qty |-> it.qty, hours |-> it.hours,
     total_w |-> total_w, daily_Wh |-> Mul(total_w, it.hours)]

compute_loads_df_NoQty(items) ==
    [i \in 1..Len(items) |-> LoadRow(items[i], items[i].watt)]

compute_loads_df(items) ==
    [i \in 1..Len(items) |-> LoadRow(items[i], Mul(items[i].watt, Whole(items[i].qty)))]

\* acc + cells[i] + ... + cells[Len(cells)], first to last, each addition
\* rounded; s is the partial sum, computed once
RECURSIVE SumSeq(_, _, _)
SumSeq(cells, i, acc) ==
    IF i > Len(cells) THEN acc
    ELSE CHOOSE r \in {SumSeq(cells, i + 1, s) : s \in {Add(acc, cells[i])}} : TRUE

\* one of numpy's 8 accumulators: acc + cells[i] + cells[i + 8] + ... up to last
RECURSIVE PairwiseLane(_, _, _, _)
PairwiseLane(cells, i, last, acc) ==
    IF i > last THEN acc
    ELSE CHOOSE r \in {PairwiseLane(cells, i + 8, last, s) : s \in {Add(acc, cells[i])}} : TRUE

\* the 8 accumulators r of the leading whole groups of 8 cells, added in
\* pairs, then the n % 8 cells that are left, one after the other
PairwiseBlock(cells, n, r) ==
    SumSeq(SubSeq(cells, n - (n % 8) + 1, n), 1,
           Add(Add(Add(r[1], r[2]), Add(r[3], r[4])),
               Add(Add(r[5], r[6]), Add(r[7], r[8]))))

\* numpy's pairwise summation of a contiguous column: fewer than 8 cells are
\* added first to last, up to 128 cells in 8 accumulators, a longer column
\* as the sum of two parts, the first of a multiple of 8 cells
RECURSIVE PairwiseSum(_)
PairwiseSum(cells) ==
    IF Len(cells) < 8 THEN SumSeq(cells, 1, FromInt(0, TRUE))
    ELSE IF Len(cells) <= 128
    THEN PairwiseBlock(cells, Len(cells),
             [j \in 1..8 |->
                 PairwiseLane(cells, j + 8, Len(cells) - (Len(cells) % 8), cells[j])])
    ELSE Add(PairwiseSum(SubSeq(cells, 1,
                 (Len(cells) \div 2) - ((Len(cells) \div 2) % 8))),
             PairwiseSum(SubSeq(cells,
                 (Len(cells) \div 2) - ((Len(cells) \div 2) % 8) + 1, Len(cells))))

\* Series.sum(): a numpy float64, 0 when empty; a NaN cell counts as 0 (skipna)
SeriesSum(cells) ==
    Add(FromInt(0, TRUE),
        PairwiseSum([i \in 1..Len(cells) |->
            IF cells[i].k = "nan" THEN FromInt(0, TRUE) ELSE cells[i]]))

total_w_sum(df) == SeriesSum([i \in 1..Len(df) |-> df[i].total_w])
daily_Wh_sum(df) == SeriesSum([i \in 1..Len(df) |-> df[i].daily_Wh])

energy_required_for_backup_NoHours(total_w, backup_hours, inverter_eff) ==
    TrueDiv(total_w, inverter_eff)

energy_required_for_backup(total_w, backup_hours, inverter_eff) ==
    TrueDiv(Mul(total_w, backup_hours), inverter_eff)

\* "x <= 0" raises TypeError on None; "or" stops at the first true operand
battery_ah_for_voltage(energy_wh, battery_voltage, dod) ==
    IF battery_voltage = None THEN TypeError
    ELSE IF LessEq(battery_voltage, Zero) THEN None
    ELSE IF dod = None THEN TypeError
    ELSE IF LessEq(dod, Zero) THEN None
    ELSE TrueDiv(energy_wh, Mul(battery_voltage, dod))

num_battery_units(ah_required, unit_capacity_ah) ==
    IF unit_capacity_ah = None THEN None
    ELSE IF LessEq(unit_capacity_ah, Zero) THEN None
    ELSE TrueDiv(ah_required, unit_capacity_ah)

pv_power_to_charge_energy(energy_wh, desired_hours, system_eff) ==
    IF desired_hours = None THEN TypeError
    ELSE IF LessEq(desired_hours, Zero) THEN None
    ELSE TrueDiv(energy_wh, Mul(desired_hours, system_eff))

pv_power_from_sunhours_NoEff(energy_wh, sun_hours, system_eff) ==
    pv_power_to_charge_energy(energy_wh, sun_hours, Whole(1))

pv_power_from_sunhours(energy_wh, sun_hours, system_eff) ==
    pv_power_to_charge_energy(energy_wh, sun_hours, system_eff)

panels_needed_from_pv_power(pv_power_w, panel_w) ==
    TrueDiv(pv_power_w, panel_w)

mppt_current_for_pv(pv_power_w, battery_voltage, safety_factor) ==
    IF battery_voltage = None THEN TypeError
    ELSE IF LessEq(battery_voltage, Zero) THEN None
    ELSE Mul(TrueDiv(pv_power_w, battery_voltage), safety_factor)

Thousand == Whole(1000)

\* max(a, b) keeps a unless b > a
PyMax(a, b) == IF IsRaised(a) THEN a ELSE IF Less(a, b) THEN b ELSE a

recommend_inverter(total_w) == PyMax(Mul(total_w, PyFloat(13, 10)), Thousand)

\* ------------------------------------------------------------------
\* Branding / defaults and widget option lists
\* ------------------------------------------------------------------
LeadAcid == "Lead-Acid 225Ah (Trojan T-105)"
Lithium == "Lithium 200Ah (Pylontech US2000 ~200Ah)"
Custom == "Custom (enter Ah below)"

COMMON_BATTERIES ==
    [c \in {LeadAcid, Lithium, Custom} |->
        IF c = LeadAcid THEN Whole(225) ELSE IF c = Lithium THEN Whole(200) ELSE None]

volt_options == <<12, 24, 48>>
ChargeFast == "Charge within desired hours (fast)"
ChargeDaily == "Recharge across sun-hours (daily)"

avg_panel_price == 100000
avg_battery_price == 250000
avg_inverter_price == 200000
installation_fee == 150000
AssumedBatteryVoltage == 24
safety_factor == PyFloat(5, 4)

\* Values the user enters in the explored sessions
FormInputs ==
    {[name |-> "", watt |-> Whole(60), qty |-> 1, hours |-> Whole(4)],
     [name |-> "Standby", watt |-> Whole(0), qty |-> 1, hours |-> Whole(4)],
     [name |-> "Pump", watt |-> Whole(600), qty |-> 2, hours |-> PyFloat(9, 2)]}
ClientNameInputs == {"", "Ann"}
InverterEffInputs == {80, 95}
SystemEffInputs == {75}
PanelInputs == {300}
DesiredChargeHoursInputs == {4}
SunHoursInputs == {5}
BackupHoursInputs == {Whole(4), Whole(5)}
DodInputs == {80}
BatteryChoiceInputs == {LeadAcid, Custom}
CustomUnitAhInputs == {200}

DefaultWidgets ==
    [client_name |-> "", inverter_eff |-> 95, system_eff |-> 75,
     default_panel_w |-> 300, desired_charge_hours |-> 4, sun_hours |-> 5,
     backup_hours |-> Whole(4), dod |-> 80, battery_choice |-> LeadAcid,
     custom_unit_ah |-> 200, charge_mode |-> ChargeFast, panel_w |-> 300]

\* A widget that a run does not render loses its value and shows its default
\* the next time it is rendered
Rendered(w, nonempty) ==
    LET w1 == IF nonempty THEN w
              ELSE [w EXCEPT !.backup_hours = DefaultWidgets.backup_hours,
                             !.dod = DefaultWidgets.dod,
                             !.battery_choice = DefaultWidgets.battery_choice,
                             !.charge_mode = DefaultWidgets.charge_mode,
                             !.panel_w = w.default_panel_w]
    IN  IF w1.battery_choice = Custom THEN w1
        ELSE [w1 EXCEPT !.custom_unit_ah = DefaultWidgets.custom_unit_ah]

\* ------------------------------------------------------------------
\* One run of the script
\* ------------------------------------------------------------------
Hidden == [shown |-> FALSE]

\* names bound at script level when the report section is reached
DefinedNames(nonempty) ==
    {"client_name", "inverter_eff", "system_eff", "default_panel_w",
     "desired_charge_hours", "sun_hours", "df_loads"}
    \cup (IF nonempty
          THEN {"total_w", "total_daily_wh", "backup_hours", "dod", "energy_wh",
                "battery_table", "unit_ah", "number_table", "charge_mode",
                "pv_needed_w", "panel_w", "panels_needed", "mppt_current",
                "inverter_rec", "est_total"}
          ELSE {})

unit_ah_of(w) ==
    IF COMMON_BATTERIES[w.battery_choice] = None
    THEN Whole(w.custom_unit_ah)
    ELSE COMMON_BATTERIES[w.battery_choice]

LoadAudit(df_loads, total_w, total_daily_wh) ==
    IF df_loads # <<>>
    THEN [shown |-> TRUE, rows |-> df_loads,
          total_w |-> total_w, total_daily_wh |-> total_daily_wh]
    ELSE Hidden

\* the two tables, one row per voltage; both show round(ah, 1)
BackupTables(total_w, backup_hours, dod, energy_wh, unit_ah, ah_req, n_units, shown_ah) ==
    [shown |-> TRUE, total_w |-> total_w, backup_hours |-> backup_hours,
     energy_wh |-> energy_wh, unit_ah |-> unit_ah,
     ah_req |-> ah_req, n_units |-> n_units,
     battery_table |-> [i \in DOMAIN volt_options |->
         [Voltage |-> volt_options[i], RequiredAh |-> shown_ah[i],
          EquivalentKWh |->
             Round(TrueDiv(Mul(Mul(ah_req[i], Whole(volt_options[i])), dod),
                           Thousand), 3)]],
     number_table |-> [i \in DOMAIN volt_options |->
         [Voltage |-> volt_options[i], RequiredAh |-> shown_ah[i],
          Units |-> Round(n_units[i], 2)]]]

\* n_units = num_battery_units(ah_req, unit_ah) for each voltage
BackupUnits(total_w, backup_hours, dod, energy_wh, unit_ah, ah_req) ==
    BackupTables(total_w, backup_hours, dod, energy_wh, unit_ah, ah_req,
                 [i \in DOMAIN volt_options |-> num_battery_units(ah_req[i], unit_ah)],
                 [i \in DOMAIN volt_options |-> Round(ah_req[i], 1)])

\* ah = battery_ah_for_voltage(energy_wh, V, dod) for each voltage
BackupAh(total_w, backup_hours, dod, energy_wh, unit_ah) ==
    BackupUnits(total_w, backup_hours, dod, energy_wh, unit_ah,
                [i \in DOMAIN volt_options |->
                    battery_ah_for_voltage(energy_wh, Whole(volt_options[i]), dod)])

\* total_w is df_loads["total_w"].sum(), which every section reads again
BackupSection(total_w, w) ==
    BackupAh(total_w, w.backup_hours, PyFloat(w.dod, 100),
             energy_required_for_backup(total_w, w.backup_hours,
                                        PyFloat(w.inverter_eff, 100)),
             unit_ah_of(w))

\* math.ceil(panels_needed) raises on an infinite or NaN value and the run
\* ends there: raised names the exception, the lines below are not reached
PlannerPanels(total_w, total_daily_wh, w, backup_hours, energy_wh, pv_needed_w, battery_voltage, panels_needed) ==
    CHOOSE planner \in
      {[shown |-> TRUE, total_w |-> total_w, total_daily_wh |-> total_daily_wh,
        charge_mode |-> w.charge_mode, backup_hours |-> backup_hours,
        energy_wh |-> energy_wh, pv_needed_w |-> pv_needed_w,
        panel_w |-> w.panel_w, panels_needed |-> panels_needed,
        panels_shown |-> panels_shown,
        raised |-> IF IsNum(panels_needed) THEN "none" ELSE panels_shown.k,
        mppt_current |->
           IF IsNum(panels_needed)
           THEN mppt_current_for_pv(pv_needed_w, Whole(battery_voltage), safety_factor)
           ELSE None,
        inverter_rec |->
           IF IsNum(panels_needed) THEN recommend_inverter(total_w) ELSE None] :
       panels_shown \in {Ceil(panels_needed)}} : TRUE

PlannerPv(total_w, total_daily_wh, w, backup_hours, energy_wh, pv_needed_w, battery_voltage) ==
    PlannerPanels(total_w, total_daily_wh, w, backup_hours, energy_wh, pv_needed_w,
                  battery_voltage,
                  panels_needed_from_pv_power(pv_needed_w, Whole(w.panel_w)))

PlannerEnergy(total_w, total_daily_wh, w, backup_hours, energy_wh, system_eff, battery_voltage) ==
    PlannerPv(total_w, total_daily_wh, w, backup_hours, energy_wh,
              IF w.charge_mode = ChargeFast
              THEN pv_power_to_charge_energy(energy_wh,
                       Whole(w.desired_charge_hours), system_eff)
              ELSE pv_power_from_sunhours(energy_wh, Whole(w.sun_hours), system_eff),
              battery_voltage)

PlannerBackup(total_w, total_daily_wh, w, backup_hours, battery_voltage) ==
    PlannerEnergy(total_w, total_daily_wh, w, backup_hours,
                  energy_required_for_backup(total_w, backup_hours,
                                             PyFloat(w.inverter_eff, 100)),
                  PyFloat(w.system_eff, 100), battery_voltage)

\* backup_hours and battery_voltage are read "if ... in locals() else ..."
Planner(total_w, total_daily_wh, w, names) ==
    PlannerBackup(total_w, total_daily_wh, w,
                  IF "backup_hours" \in names THEN w.backup_hours ELSE Whole(4),
                  IF "battery_voltage" \in names THEN w.battery_voltage
                  ELSE AssumedBatteryVoltage)

est_total_NoInstall(est_solar_cost, est_battery_cost, est_inverter_cost) ==
    est_solar_cost + est_battery_cost + est_inverter_cost

est_total_of(est_solar_cost, est_battery_cost, est_inverter_cost) ==
    est_solar_cost + est_battery_cost + est_inverter_cost + installation_fee

CostOf(est_panels, est_batteries) ==
    [shown |-> TRUE, est_panels |-> est_panels, est_batteries |-> est_batteries,
     est_inverter_cost |-> avg_inverter_price,
     est_solar_cost |-> est_panels * avg_panel_price,
     est_battery_cost |-> est_batteries * avg_battery_price,
     est_total |-> est_total_of(est_panels * avg_panel_price,
                                est_batteries * avg_battery_price,
                                avg_inverter_price)]

CostEstimate(planner, names) ==
    CostOf(IF "panels_needed" \in names THEN Ceil(planner.panels_needed) ELSE 0,
           IF "num_batteries" \in names THEN Ceil(planner.num_batteries) ELSE 0)

ReportBody(w, total_w, total_daily_wh, planner, backup_hours) ==
    [outcome |-> "generated", total_w |-> total_w,
     total_daily_wh |-> total_daily_wh,
     backup_hours |-> backup_hours,
     energy_wh |-> energy_required_for_backup(total_w, backup_hours,
                                              PyFloat(w.inverter_eff, 100)),
     panels_needed |-> panels_needed_from_pv_power(planner.pv_needed_w,
                                                   Whole(w.panel_w)),
     inverter_rec |-> recommend_inverter(total_w),
     mppt_current |-> mppt_current_for_pv(planner.pv_needed_w,
                         Whole(AssumedBatteryVoltage), safety_factor)]

\* the "Create professional PDF proposal" button handler
Report(ss, w, total_w, total_daily_wh, planner, names) ==
    IF w.client_name = "" THEN [outcome |-> "st.error"]
    ELSE IF "load_data" \notin DOMAIN ss THEN [outcome |-> "AttributeError"]
    ELSE IF ss.load_data = <<>> THEN [outcome |-> "st.error"]
    ELSE IF {"dod", "panel_w", "pv_needed_w", "project_location"} \ names # {}
         THEN [outcome |-> "NameError"]
    ELSE ReportBody(w, total_w, total_daily_wh, planner,
                    IF "backup_hours" \in names THEN w.backup_hours
                    ELSE Whole(4))

\* the run ended in the planner with an uncaught exception
Crashed(planner) == planner.shown /\ planner.raised # "none"

\* what the run leaves on the page; nothing below the line that raised
Page(ss, w, df_loads, names, total_w, total_daily_wh, planner, report) ==
    [load_audit |-> LoadAudit(df_loads, total_w, total_daily_wh),
     backup |-> IF df_loads # <<>> THEN BackupSection(total_w, w) ELSE Hidden,
     planner |-> planner,
     cost |-> IF df_loads # <<>> /\ ~Crashed(planner)
              THEN CostEstimate(planner, names) ELSE Hidden,
     report |-> report,
     download |-> /\ ~Crashed(planner)
                  /\ report.outcome \notin {"AttributeError", "NameError"}
                  /\ ("pdf_data" \in DOMAIN ss \/ report.outcome = "generated")]

ScriptPlanner(ss, w, pdf_clicked, df_loads, names, total_w, total_daily_wh, planner) ==
    Page(ss, w, df_loads, names, total_w, total_daily_wh, planner,
         IF ~pdf_clicked THEN [outcome |-> "none"]
         ELSE IF Crashed(planner) THEN [outcome |-> planner.raised]
         ELSE Report(ss, w, total_w, total_daily_wh, planner, names))

ScriptTotals(ss, w, pdf_clicked, df_loads, names, total_w, total_daily_wh) ==
    ScriptPlanner(ss, w, pdf_clicked, df_loads, names, total_w, total_daily_wh,
                  IF df_loads # <<>> THEN Planner(total_w, total_daily_wh, w, names)
                  ELSE Hidden)

ScriptLoads(ss, w, pdf_clicked, df_loads) ==
    ScriptTotals(ss, w, pdf_clicked, df_loads, DefinedNames(df_loads # <<>>),
                 total_w_sum(df_loads), daily_Wh_sum(df_loads))

Script(ss, w, pdf_clicked) ==
    ScriptLoads(ss, w, pdf_clicked, compute_loads_df(ss.loads))

\* st.session_state after the run: only a generated report stores pdf_data
SessionAfter(ss, report) ==
    IF report.outcome = "generated"
    THEN [key \in DOMAIN ss \cup {"pdf_data"} |->
            IF key = "pdf_data" THEN report ELSE ss[key]]
    ELSE ss

NoCall == [fn |-> "none"]

\* ------------------------------------------------------------------
\* The session: state after the first run, then one action per user action
\* ------------------------------------------------------------------
Init ==
    /\ widgets = DefaultWidgets
    /\ session_state = [loads |-> <<>>]
    /\ screen = Script([loads |-> <<>>], DefaultWidgets, FALSE)
    /\ call = NoCall

\* any widget change re-runs the script with the new value
Rerun(w) ==
    /\ widgets' = Rendered(w, Len(session_state.loads) > 0)
    /\ screen' = Script(session_state, widgets', FALSE)
    /\ UNCHANGED <<session_state, call>>

SetClientName == \E v \in ClientNameInputs :
    v # widgets.client_name /\ Rerun([widgets EXCEPT !.client_name = v])

SetInverterEff == \E v \in InverterEffInputs :
    v # widgets.inverter_eff /\ Rerun([widgets EXCEPT !.inverter_eff = v])

SetSystemEff == \E v \in SystemEffInputs :
    Rerun([widgets EXCEPT !.system_eff = v])

\* the panel selectbox takes its index from the sidebar default, so a new
\* default re-creates it at that default
SetDefaultPanelW == \E v \in PanelInputs :
    Rerun([widgets EXCEPT !.default_panel_w = v, !.panel_w = v])

SetDesiredChargeHours == \E v \in DesiredChargeHoursInputs :
    Rerun([widgets EXCEPT !.desired_charge_hours = v])

SetSunHours == \E v \in SunHoursInputs :
    Rerun([widgets EXCEPT !.sun_hours = v])

SetBackupHours == \E v \in BackupHoursInputs :
    /\ Len(session_state.loads) > 0
    /\ v # widgets.backup_hours
    /\ Rerun([widgets EXCEPT !.backup_hours = v])

SetDod == \E v \in DodInputs :
    /\ Len(session_state.loads) > 0
    /\ Rerun([widgets EXCEPT !.dod = v])

SetBatteryChoice == \E v \in BatteryChoiceInputs :
    /\ Len(session_state.loads) > 0
    /\ v # widgets.battery_choice
    /\ Rerun([widgets EXCEPT !.battery_choice = v])

SetCustomUnitAh == \E v \in CustomUnitAhInputs :
    /\ Len(session_state.loads) > 0
    /\ widgets.battery_choice = Custom
    /\ Rerun([widgets EXCEPT !.custom_unit_ah = v])

SetChargeMode == \E v \in {ChargeFast, ChargeDaily} :
    /\ Len(session_state.loads) > 0
    /\ v # widgets.charge_mode
    /\ Rerun([widgets EXCEPT !.charge_mode = v])

SetPanelW == \E v \in PanelInputs :
    /\ Len(session_state.loads) > 0
    /\ Rerun([widgets EXCEPT !.panel_w = v])

\* the form's submit button: append, then the rest of the script runs
AddAppliance_Stale(name, watt, qty, hours) ==
    /\ Len(session_state.loads) < MaxLoads
    /\ session_state' =
         IF name # ""
         THEN [session_state EXCEPT !.loads =
                 Append(@, [name |-> name, watt |-> watt, qty |-> qty, hours |-> hours])]
         ELSE session_state
    /\ widgets' = Rendered(widgets, Len(session_state'.loads) > 0)
    /\ screen' = Script(session_state, widgets', FALSE)
    /\ UNCHANGED call

AddAppliance(name, watt, qty, hours) ==
    /\ Len(session_state.loads) < MaxLoads
    /\ session_state' =
         IF name # ""
         THEN [session_state EXCEPT !.loads =
                 Append(@, [name |-> name, watt |-> watt, qty |-> qty, hours |-> hours])]
         ELSE session_state
    /\ widgets' = Rendered(widgets, Len(session_state'.loads) > 0)
    /\ screen' = Script(session_state', widgets', FALSE)
    /\ UNCHANGED call

AddApplianceForm ==
    \E f \in FormInputs : AddAppliance(f.name, f.watt, f.qty, f.hours)

\* "Clear load list" is rendered only under a non-empty table; the handler
\* empties the list and st.experimental_rerun() runs the script again
ClearLoadList ==
    /\ screen.load_audit.shown
    /\ session_state' = [session_state EXCEPT !.loads = <<>>]
    /\ widgets' = Rendered(widgets, FALSE)
    /\ screen' = Script(session_state', widgets', FALSE)
    /\ UNCHANGED call

\* the button of line 352 is on the page only when the run before reached it
CreatePdf ==
    /\ ~Crashed(screen.planner)
    /\ widgets' = Rendered(widgets, Len(session_state.loads) > 0)
    /\ screen' = Script(session_state, widgets', TRUE)
    /\ session_state' = SessionAfter(session_state, screen'.report)
    /\ UNCHANGED call

Next ==
    \/ SetClientName \/ SetInverterEff \/ SetSystemEff \/ SetDefaultPanelW
    \/ SetDesiredChargeHours \/ SetSunHours \/ SetBackupHours \/ SetDod
    \/ SetBatteryChoice \/ SetCustomUnitAh \/ SetChargeMode \/ SetPanelW
    \/ AddApplianceForm \/ ClearLoadList \/ CreatePdf

Spec == Init /\ [][Next]_vars

\* ------------------------------------------------------------------
\* The calculation helpers called directly, on arguments the widgets
\* cannot produce as well (zero and negative ratios, plain Python floats)
\* ------------------------------------------------------------------
Aggregate(items) ==
    [total_instant_watts |-> total_w_sum(compute_loads_df(items)),
     total_daily_energy_wh |-> daily_Wh_sum(compute_loads_df(items))]

LED == [name |-> "LED", watt |-> PyFloat(47, 10), qty |-> 3, hours |-> PyFloat(11, 2)]

\* a wattage of 2^1023, which the form accepts: two units are beyond the
\* largest double
Bank == [name |-> "Bank", watt |-> Num(0, <<1>>, 1023, FALSE, FALSE), qty |-> 2,
         hours |-> Whole(0)]

ValidEntries == {f \in FormInputs : f.name # ""} \cup {LED, Bank}

RECURSIVE ItemLists(_)
ItemLists(n) ==
    IF n = 0 THEN {<<>>}
    ELSE LET shorter == ItemLists(n - 1)
         IN  shorter \cup {Append(l, e) : l \in shorter, e \in ValidEntries}

\* a list that a further entry makes a column of 8 cells
LongLists == {[i \in 1..7 |-> LED], [i \in 1..15 |-> LED]}

EnergyArgs == {PyFloat(3000, 1), NpFloat(3000, 1), NpFloat(0, 1)}
WattArgs == {PyFloat(600, 1), NpFloat(600, 1), NpFloat(0, 1)}
RatioArgs == {PyFloat(0 - 1, 2), PyFloat(0, 1), PyFloat(3, 4), PyFloat(19, 20)}
VoltageArgs == {Whole(0 - 12), Whole(0), Whole(12), Whole(24), Whole(48)}
HoursArgs == {Whole(0), Whole(4), Whole(5)}

\* values of the backup hours input (1.0 to 168.0, any float): whole hours,
\* and the two floats next above 7.0, 7 + 2^-50 and 7 + 2^-49
BackupHoursArgs ==
    BackupHoursInputs \cup
    {Whole(167), Whole(168),
     Num(0, <<1, 0, 0, 1792>>, 0 - 50, FALSE, FALSE),
     Num(0, <<2, 0, 0, 1792>>, 0 - 50, FALSE, FALSE)}

CallEnergy ==
    call = NoCall /\
    \E total_w \in WattArgs, backup_hours \in HoursArgs, inverter_eff \in RatioArgs :
        /\ call' = [fn |-> "energy_required_for_backup",
                    total_w |-> total_w, backup_hours |-> backup_hours,
                    inverter_eff |-> inverter_eff,
                    nonpositive |-> LessEq(inverter_eff, Zero),
                    result |-> energy_required_for_backup(total_w, backup_hours, inverter_eff)]
        /\ UNCHANGED <<widgets, session_state, screen>>

CallBatteryAh ==
    call = NoCall /\
    \E energy_wh \in EnergyArgs, battery_voltage \in VoltageArgs, dod \in RatioArgs :
        /\ call' = [fn |-> "battery_ah_for_voltage",
                    energy_wh |-> energy_wh, battery_voltage |-> battery_voltage,
                    dod |-> dod,
                    nonpositive |-> LessEq(battery_voltage, Zero) \/ LessEq(dod, Zero),
                    result |-> battery_ah_for_voltage(energy_wh, battery_voltage, dod)]
        /\ UNCHANGED <<widgets, session_state, screen>>

CallPvPower ==
    call = NoCall /\
    \E energy_wh \in EnergyArgs, desired_hours \in HoursArgs, system_eff \in RatioArgs :
        /\ call' = [fn |-> "pv_power_to_charge_energy",
                    energy_wh |-> energy_wh, desired_hours |-> desired_hours,
                    system_eff |-> system_eff,
                    nonpositive |-> LessEq(system_eff, Zero),
                    result |-> pv_power_to_charge_energy(energy_wh, desired_hours, system_eff)]
        /\ UNCHANGED <<widgets, session_state, screen>>

CallMppt ==
    call = NoCall /\
    \E pv_power_w \in EnergyArgs, battery_voltage \in VoltageArgs :
        /\ call' = [fn |-> "mppt_current_for_pv",
                    pv_power_w |-> pv_power_w, battery_voltage |-> battery_voltage,
                    nonpositive |-> LessEq(battery_voltage, Zero),
                    result |-> mppt_current_for_pv(pv_power_w, battery_voltage, safety_factor)]
        /\ UNCHANGED <<widgets, session_state, screen>>

CallAggregate ==
    call = NoCall /\
    \E a \in ItemLists(MaxItems) \cup LongLists, b \in ItemLists(MaxItems) :
        /\ call' = [fn |-> "aggregate", a |-> a, b |-> b,
                    of_a |-> Aggregate(a), of_b |-> Aggregate(b),
                    of_ab |-> Aggregate(a \o b)]
        /\ UNCHANGED <<widgets, session_state, screen>>

\* the backup section for one load list, run with two values of backup_hours
CallBackup ==
    call = NoCall /\
    \E e \in ValidEntries, backup_hours \in BackupHoursArgs,
       more_hours \in BackupHoursArgs, inverter_eff \in InverterEffInputs,
       battery_choice \in BatteryChoiceInputs :
      \E total_w \in {total_w_sum(compute_loads_df(<<e>>))} :
        /\ Less(backup_hours, more_hours)
        /\ call' = [fn |-> "backup", total_w |-> total_w,
                    backup_hours |-> backup_hours, more_hours |-> more_hours,
                    lo |-> BackupSection(total_w,
                              [DefaultWidgets EXCEPT !.backup_hours = backup_hours,
                                                     !.inverter_eff = inverter_eff,
                                                     !.battery_choice = battery_choice]),
                    hi |-> BackupSection(total_w,
                              [DefaultWidgets EXCEPT !.backup_hours = more_hours,
                                                     !.inverter_eff = inverter_eff,
                                                     !.battery_choice = battery_choice])]
        /\ UNCHANGED <<widgets, session_state, screen>>

\* the call returns and the next one can be made
Return ==
    /\ call # NoCall
    /\ call' = NoCall
    /\ UNCHANGED <<widgets, session_state, screen>>

NextHelpers ==
    \/ CallEnergy \/ CallBatteryAh \/ CallPvPower \/ CallMppt \/ CallAggregate
    \/ CallBackup \/ Return

SpecHelpers == Init /\ [][NextHelpers]_vars

\* ------------------------------------------------------------------
\* Properties
\* ------------------------------------------------------------------
SizingHelpers == {"energy_required_for_backup", "battery_ah_for_voltage",
                  "pv_power_to_charge_energy", "mppt_current_for_pv"}

\* C1: a sizing helper called with a zero or negative battery_voltage,
\* depth_of_discharge, inverter_efficiency or system_efficiency ends in an
\* InvalidConfiguration outcome, never a number, inf, NaN or a raised division.
C1_NonPositiveRatioIsInvalidConfiguration ==
    (call.fn \in SizingHelpers /\ call.nonpositive)
        => call.result.k = "InvalidConfiguration"

LoadsTotalW == total_w_sum(compute_loads_df(session_state.loads))

\* C2: a sizing result (battery section, planner, cost) is on screen only
\* when total_instant_watts > 0.
C2_SizingOnlyForPositiveLoad ==
    (screen.backup.shown \/ screen.planner.shown \/ screen.cost.shown)
        => Less(Zero, LoadsTotalW)

\* C3: the cost estimate buys ceil(panels_needed) panels and
\* ceil(battery_units_needed) battery units, so neither count is below the
\* real-valued requirement (for the battery: that of some offered voltage).
C3_PurchasedCountsAreCeilings ==
    screen.cost.shown =>
        /\ screen.cost.est_solar_cost
             = Ceil(screen.planner.panels_needed) * avg_panel_price
        /\ LessEq(screen.planner.panels_needed, Whole(screen.cost.est_panels))
        /\ \E i \in 1..Len(volt_options) :
             /\ screen.cost.est_battery_cost
                  = Ceil(screen.backup.n_units[i]) * avg_battery_price
             /\ LessEq(screen.backup.n_units[i], Whole(screen.cost.est_batteries))

Subtotal == screen.cost.est_battery_cost + screen.cost.est_solar_cost
            + screen.cost.est_inverter_cost

RateInstallation == IF Subtotal * 20 > installation_fee * 100
                    THEN (Subtotal * 20) \div 100 ELSE installation_fee

\* C4 as stated: total_cost = battery + solar + inverter + installation with
\* installation = max(150000, 20% of the three component costs).
C4_TotalWithRateInstallation ==
    screen.cost.shown => screen.cost.est_total = Subtotal + RateInstallation

\* C4 amended: total_cost = battery + solar + inverter + a flat installation
\* cost of 150000; no percentage of the component costs enters the total.
C4_TotalWithFlatInstallation ==
    screen.cost.shown => screen.cost.est_total = Subtotal + installation_fee

C4_Witness ==
    /\ screen.cost.shown
    /\ Subtotal * 20 > installation_fee * 100
    /\ screen.cost.est_total = Subtotal + installation_fee

EntryWatts(e) == Mul(e.watt, Whole(e.qty))
EntryEnergy(e) == Mul(Mul(e.watt, Whole(e.qty)), e.hours)

\* C5 as stated: aggregation sums watt*qty and watt*qty*hours over the
\* entries: the empty list gives (0, 0), a single entry gives its own
\* products, and the totals of a concatenation are the sums of the totals of
\* the two lists.
C5_AggregateIsAdditiveSum ==
    call.fn = "aggregate" =>
        /\ Same(call.of_ab.total_instant_watts,
                Add(call.of_a.total_instant_watts, call.of_b.total_instant_watts))
        /\ Same(call.of_ab.total_daily_energy_wh,
                Add(call.of_a.total_daily_energy_wh, call.of_b.total_daily_energy_wh))
        /\ (call.a = <<>> => /\ Same(call.of_a.total_instant_watts, Zero)
                             /\ Same(call.of_a.total_daily_energy_wh, Zero))
        /\ (Len(call.a) = 1 =>
              /\ Same(call.of_a.total_instant_watts, EntryWatts(call.a[1]))
              /\ Same(call.of_a.total_daily_energy_wh, EntryEnergy(call.a[1])))

\* a product that is not a number (an infinite wattage over 0 hours) counts as 0
Counted(c) == IF c.k = "nan" THEN FromInt(0, TRUE) ELSE c

\* |x - y|
Gap(x, y) ==
    IF Less(x, y) THEN Add(y, [x EXCEPT !.s = 1 - x.s])
    ELSE Add(x, [y EXCEPT !.s = 1 - y.s])

\* the total of a list of n entries and the sum of the totals of its two
\* parts, all finite, are within n * 2^-51 of the total
Near(of_ab, of_a, of_b, n) ==
    (IsNum(of_ab) /\ IsNum(Add(of_a, of_b))) =>
        LessEq(Gap(of_ab, Add(of_a, of_b)),
               Mul(of_ab, Num(0, BigFromInt(n), 0 - 51, FALSE, TRUE)))

\* C5 amended: the totals are the floating-point column sums of watt*qty and
\* watt*qty*hours, a product that is not a number counting as 0: the empty
\* list gives (0, 0) and a single entry its own products.  With fewer than 8
\* entries in all the sums run in list order, so the totals of a
\* concatenation are the totals of the first list continued with the entries
\* of the second, and they are the sums of the two lists' totals when the
\* second list has at most one entry.  For lists of any length the finite
\* totals of a concatenation of n entries are the sums of the two lists'
\* totals up to the rounding of the additions: they differ by at most
\* n * 2^-51 times the total.
C5_AggregateIsFloatSum ==
    call.fn = "aggregate" =>
        /\ (Len(call.a) + Len(call.b) < 8 =>
              /\ Same(call.of_ab.total_instant_watts,
                      SumSeq([i \in 1..Len(call.b) |-> Counted(EntryWatts(call.b[i]))], 1,
                             call.of_a.total_instant_watts))
              /\ Same(call.of_ab.total_daily_energy_wh,
                      SumSeq([i \in 1..Len(call.b) |-> Counted(EntryEnergy(call.b[i]))], 1,
                             call.of_a.total_daily_energy_wh))
              /\ (Len(call.b) <= 1 =>
                    /\ Same(call.of_ab.total_instant_watts,
                            Add(call.of_a.total_instant_watts,
                                call.of_b.total_instant_watts))
                    /\ Same(call.of_ab.total_daily_energy_wh,
                            Add(call.of_a.total_daily_energy_wh,
                                call.of_b.total_daily_energy_wh))))
        /\ Near(call.of_ab.total_instant_watts, call.of_a.total_instant_watts,
                call.of_b.total_instant_watts, Len(call.a) + Len(call.b))
        /\ Near(call.of_ab.total_daily_energy_wh, call.of_a.total_daily_energy_wh,
                call.of_b.total_daily_energy_wh, Len(call.a) + Len(call.b))
        /\ (call.a = <<>> => /\ Same(call.of_a.total_instant_watts, Zero)
                             /\ Same(call.of_a.total_daily_energy_wh, Zero))
        /\ (Len(call.a) = 1 =>
              /\ Same(call.of_a.total_instant_watts, Counted(EntryWatts(call.a[1])))
              /\ Same(call.of_a.total_daily_energy_wh, Counted(EntryEnergy(call.a[1]))))

\* a one-entry list joined with a two-entry list whose total differs, in the
\* last bit, from the sum of the two totals
C5_Witness ==
    /\ call.fn = "aggregate"
    /\ Len(call.a) = 1 /\ Len(call.b) = 2
    /\ call.a[1].qty > 1
    /\ Less(Zero, call.of_a.total_daily_energy_wh)
    /\ Less(call.of_a.total_instant_watts, call.of_ab.total_instant_watts)
    /\ ~Same(call.of_ab.total_instant_watts,
             Add(call.of_a.total_instant_watts, call.of_b.total_instant_watts))

RechargeWindow ==
    IF widgets.charge_mode = ChargeFast
    THEN Whole(widgets.desired_charge_hours) ELSE Whole(widgets.sun_hours)

\* C6: in both charge modes the required PV power is energy_required_wh /
\* (W * system_efficiency), W being the desired recharge hours in the fast
\* mode and the peak sun hours in the daily mode, and that energy is
\* (total_instant_watts * the configured backup_hours) / inverter_efficiency.
C6_OneFormulaForBothChargeModes ==
    screen.planner.shown =>
        /\ Same(screen.planner.pv_needed_w,
                TrueDiv(screen.planner.energy_wh,
                        Mul(RechargeWindow, PyFloat(widgets.system_eff, 100))))
        /\ Same(screen.planner.energy_wh,
                TrueDiv(Mul(LoadsTotalW, widgets.backup_hours),
                        PyFloat(widgets.inverter_eff, 100)))

C6_Witness ==
    /\ screen.planner.shown
    /\ widgets.charge_mode = ChargeDaily
    /\ widgets.backup_hours # DefaultWidgets.backup_hours
    /\ Less(Zero, screen.planner.pv_needed_w)

\* C7: for each battery voltage of the session (12, 24, 48) the controller
\* current on screen is (required_pv_watts / that voltage) * 1.25.
C7_ControllerCurrentForEachVoltage ==
    screen.planner.shown =>
        \A i \in 1..Len(volt_options) :
            Same(screen.planner.mppt_current,
                 Mul(TrueDiv(screen.planner.pv_needed_w, Whole(volt_options[i])),
                     safety_factor))

\* C8: with a positive load and every other input unchanged, a larger
\* backup_hours gives a strictly larger energy_required_wh, required Ah at
\* every voltage and real-valued number of battery units at every voltage.
C8_BackupHoursStrictlyMonotone ==
    (call.fn = "backup" /\ Less(Zero, call.total_w)) =>
        /\ Less(call.lo.energy_wh, call.hi.energy_wh)
        /\ \A i \in 1..Len(volt_options) :
              /\ Less(call.lo.ah_req[i], call.hi.ah_req[i])
              /\ Less(call.lo.n_units[i], call.hi.n_units[i])

\* a finite float that is neither zero nor subnormal
Normal(x) == IsNum(x) /\ ~IsZero(x) /\ x.e > MinExp

\* a whole number of hours
WholeHours(h) == IsNum(h) /\ ~Trunc(h).frac

\* y is not below x, and is above it when strict and x is a normal float
Grows(x, y, strict) == LessEq(x, y) /\ ((strict /\ Normal(x)) => Less(x, y))

\* C8 amended: with a positive load and every other input unchanged, a
\* larger backup_hours never gives a smaller energy_required_wh, required Ah
\* or real-valued number of battery units at any voltage; it gives a
\* strictly larger one when both values of backup_hours are whole numbers of
\* hours (1 to 168) and the smaller result is a normal finite float.
C8_BackupHoursMonotone ==
    (call.fn = "backup" /\ Less(Zero, call.total_w)) =>
        \A strict \in {WholeHours(call.backup_hours) /\ WholeHours(call.more_hours)} :
            /\ Grows(call.lo.energy_wh, call.hi.energy_wh, strict)
            /\ \A i \in 1..Len(volt_options) :
                  /\ Grows(call.lo.ah_req[i], call.hi.ah_req[i], strict)
                  /\ Grows(call.lo.n_units[i], call.hi.n_units[i], strict)

\* the section run for 167 and for 168 whole hours on a finite positive load
C8_Witness ==
    /\ call.fn = "backup"
    /\ WholeHours(call.backup_hours) /\ WholeHours(call.more_hours)
    /\ Less(Whole(5), call.backup_hours)
    /\ Less(call.backup_hours, call.more_hours)
    /\ Normal(call.total_w)
    /\ Less(call.lo.energy_wh, call.hi.energy_wh)
    /\ Less(Zero, call.lo.n_units[3])
    /\ Less(call.lo.n_units[3], call.hi.n_units[3])

\* C9: every stage shown by a run uses the totals of the load list as it
\* stands after that run's add or clear, and no stage is shown for an
\* emptied list.
C9_StagesUseCurrentTotals ==
    LET now == Aggregate(session_state.loads)
        shown == Len(session_state.loads) > 0
    IN  /\ screen.load_audit.shown = shown
        /\ screen.backup.shown = shown
        /\ screen.planner.shown = shown
        /\ screen.cost.shown = shown
        /\ shown =>
             /\ screen.load_audit.rows = compute_loads_df(session_state.loads)
             /\ Same(screen.load_audit.total_w, now.total_instant_watts)
             /\ Same(screen.load_audit.total_daily_wh, now.total_daily_energy_wh)
             /\ Same(screen.backup.total_w, now.total_instant_watts)
             /\ Same(screen.planner.total_w, now.total_instant_watts)
             /\ Same(screen.planner.total_daily_wh, now.total_daily_energy_wh)
             /\ Same(screen.planner.inverter_rec,
                     recommend_inverter(now.total_instant_watts))
             /\ screen.cost.est_panels = Ceil(screen.planner.panels_needed)
        /\ screen.report.outcome = "generated" =>
             Same(screen.report.total_w, now.total_instant_watts)

C9_Witness ==
    /\ Len(session_state.loads) = 2
    /\ Less(Zero, session_state.loads[2].watt)
    /\ Same(session_state.loads[1].watt, Zero)
    /\ Less(Zero, screen.planner.total_w)

\* C10: a report request ends in a generated report or an explicit error;
\* with an empty load list or no client name it ends in the explicit error
\* and stores no pdf_data.
C10_ReportRequestEndsInReportOrError ==
    screen.report.outcome # "none" =>
        /\ screen.report.outcome \in {"generated", "st.error"}
        /\ (session_state.loads = <<>> \/ widgets.client_name = "")
              => screen.report.outcome = "st.error"

====
